---- MODULE Spec2Model ----
(***************************************************************************)
(* A model of the ContentQA server actions (src/src/app/actions.ts), the   *)
(* analysis flow they call (src/src/ai/flows/ai-powered-content-           *)
(* compliance.ts) and the page that submits a batch (src/src/app/page.tsx).*)
(*                                                                         *)
(* Strings that the code inspects character by character (URLs, hrefs)     *)
(* are sequences of one-character strings, so that startsWith, split and   *)
(* URL parsing are computed as the code computes them.  Markup is a        *)
(* sequence of tokens: a whole tag, or one character of text.              *)
(***************************************************************************)
EXTENDS Integers, Sequences, FiniteSets, TLC

(***************************************************************************)
(* Bounds of the model.                                                    *)
(***************************************************************************)
\* number of runSingleAudit calls that may be in flight or finished
MaxCalls == 2

NULL == "undefined"

(***************************************************************************)
(* String helpers (String.prototype.startsWith, String.prototype.split).   *)
(***************************************************************************)
StartsWith(s, p) ==
    /\ Len(p) <= Len(s)
    /\ SubSeq(s, 1, Len(p)) = p

\* index of the first character of s that lies in set chars, Len(s)+1 if none
FirstOf(s, chars) ==
    IF \E i \in 1..Len(s) : s[i] \in chars
    THEN CHOOSE i \in 1..Len(s) :
            /\ s[i] \in chars
            /\ \A j \in 1..(i-1) : s[j] \notin chars
    ELSE Len(s) + 1

\* index of the last occurrence of character ch in s, 0 if none
LastOf(s, ch) ==
    IF \E i \in 1..Len(s) : s[i] = ch
    THEN CHOOSE i \in 1..Len(s) :
            /\ s[i] = ch
            /\ \A j \in (i+1)..Len(s) : s[j] # ch
    ELSE 0

\* s.split(ch)[0]
SplitHead(s, ch) == SubSeq(s, 1, FirstOf(s, {ch}) - 1)

From(s, i) == SubSeq(s, i, Len(s))

(***************************************************************************)
(* The URL class (WHATWG URL), as far as the actions use it: new URL(s),   *)
(* new URL(s, base), .protocol, .hostname, .href.  Inputs of the model     *)
(* carry lower-case hosts without port or credentials and paths without    *)
(* dot segments or characters that are percent-encoded, so serialising     *)
(* is scheme "://" host path query fragment.                               *)
(***************************************************************************)
Alpha == {"a","b","c","d","e","f","g","h","i","j","k","l","m","n","o","p",
          "q","r","s","t","u","v","w","x","y","z"}
SchemeChars == Alpha \cup {"+", "-", "."}
HostForbidden == {" ", "<", ">", "[", "]", "^", "|", "%", "@", ":"}
SpecialSchemes == { <<"h","t","t","p">>, <<"h","t","t","p","s">> }

BadUrl == [ok |-> FALSE]

\* the scheme of s (without the colon), or <<>> when s starts with none
SchemeOf(s) ==
    LET k == FirstOf(s, {":"})
    IN  IF /\ k <= Len(s)
           /\ k > 1
           /\ s[1] \in Alpha
           /\ \A i \in 1..(k-1) : s[i] \in SchemeChars
        THEN SubSeq(s, 1, k-1)
        ELSE <<>>

\* path, query ("?..." or empty) and fragment ("#..." or empty) of a tail
PathQueryFrag(tail) ==
    LET f   == FirstOf(tail, {"#"})
        pre == SubSeq(tail, 1, f - 1)
        q   == FirstOf(pre, {"?"})
    IN  [path  |-> SubSeq(pre, 1, q - 1),
         query |-> From(pre, q),
         frag  |-> From(tail, f)]

\* the special-authority states skip every leading slash
StripSlashes(s) ==
    IF \E i \in 1..Len(s) : s[i] \notin {"/", "\\"}
    THEN From(s, CHOOSE i \in 1..Len(s) :
                    /\ s[i] \notin {"/", "\\"}
                    /\ \A j \in 1..(i-1) : s[j] \in {"/", "\\"})
    ELSE <<>>

\* an absolute URL string with a scheme
ParseAbsolute(s) ==
    LET scheme == SchemeOf(s)
        rest   == From(s, Len(scheme) + 2)
    IN  IF scheme \in SpecialSchemes
        THEN LET r    == StripSlashes(rest)
                 e    == FirstOf(r, {"/", "?", "#"})
                 host == SubSeq(r, 1, e - 1)
                 pqf  == PathQueryFrag(From(r, e))
             IN  IF host = <<>> \/ \E i \in 1..Len(host) : host[i] \in HostForbidden
                 THEN BadUrl
                 ELSE [ok |-> TRUE, special |-> TRUE, scheme |-> scheme,
                       host |-> host,
                       path |-> IF pqf.path = <<>> THEN <<"/">> ELSE pqf.path,
                       query |-> pqf.query, frag |-> pqf.frag]
        ELSE \* an opaque URL such as mailto:x : kept as written, no host
             [ok |-> TRUE, special |-> FALSE, scheme |-> scheme,
              host |-> <<>>, path |-> rest, query |-> <<>>, frag |-> <<>>]

\* new URL(s): throws (BadUrl) unless s is an absolute URL
ParseUrl(s) ==
    IF SchemeOf(s) = <<>> THEN BadUrl ELSE ParseAbsolute(s)

\* url.href
Href(u) ==
    IF u.special
    THEN u.scheme \o <<":", "/", "/">> \o u.host \o u.path \o u.query \o u.frag
    ELSE u.scheme \o <<":">> \o u.path

\* url.protocol and url.hostname
Protocol(u) == u.scheme \o <<":">>
Hostname(u) == u.host

\* new URL(s, base): s resolved against the parsed base
ResolveUrl(s, base) ==
    IF SchemeOf(s) # <<>> THEN ParseAbsolute(s)
    ELSE IF ~base.ok \/ ~base.special THEN BadUrl
    ELSE IF s = <<>> THEN [base EXCEPT !.frag = <<>>]
    ELSE IF Len(s) >= 2 /\ s[1] = "/" /\ s[2] = "/"
         THEN ParseAbsolute(base.scheme \o <<":">> \o s)
    ELSE IF s[1] = "/"
         THEN LET pqf == PathQueryFrag(s)
              IN  [base EXCEPT !.path = pqf.path, !.query = pqf.query,
                               !.frag = pqf.frag]
    ELSE IF s[1] = "?"
         THEN LET pqf == PathQueryFrag(s)
              IN  [base EXCEPT !.query = pqf.query, !.frag = pqf.frag]
    ELSE IF s[1] = "#"
         THEN [base EXCEPT !.frag = s]
    ELSE LET pqf == PathQueryFrag(s)
             dir == SubSeq(base.path, 1, LastOf(base.path, "/"))
         IN  [base EXCEPT !.path = dir \o pqf.path, !.query = pqf.query,
                          !.frag = pqf.frag]

\* zod's z.string().url(): the string is accepted when new URL(s) does not throw
ZodUrl(s) == ParseUrl(s).ok

(***************************************************************************)
(* Markup.  A token is a whole tag or one character of text.               *)
(***************************************************************************)
WhiteSpace == {" ", "\n", "\t"}
Tags == {"<html>", "</html>", "<body>", "</body>", "<style>", "</style>",
         "<script>", "</script>", "<nav>", "</nav>", "<footer>", "</footer>",
         "<b>", "</b>", "<p>", "</p>"}

\* index of the first / last token of s equal to tok, 0 if none
FirstTok(s, tok) ==
    IF \E i \in 1..Len(s) : s[i] = tok THEN FirstOf(s, {tok}) ELSE 0
LastTok(s, tok) == LastOf(s, tok)

\* /<body[^>]*>([\s\S]*)<\/body>/ : from the first <body> to the last </body>
BodyMatch(html) ==
    LET b == FirstTok(html, "<body>")
        e == LastTok(html, "</body>")
    IN  IF b > 0 /\ e > b
        THEN [matched |-> TRUE, inner |-> SubSeq(html, b + 1, e - 1)]
        ELSE [matched |-> FALSE, inner |-> <<>>]

\* .replace(/<open[^>]*>.*<\/close>/gis, ''): the match is greedy, from the
\* first opening tag to the last closing tag after it
RemoveRegion(s, open, close) ==
    LET o == FirstTok(s, open)
        e == LastTok(s, close)
    IN  IF o > 0 /\ e > o
        THEN SubSeq(s, 1, o - 1) \o From(s, e + 1)
        ELSE s

\* .replace(/<[^>]+>/g, ' ')
TagsToSpaces(s) == [i \in 1..Len(s) |-> IF s[i] \in Tags THEN " " ELSE s[i]]

\* .replace(/\s\s+/g, ' '): a run of two or more whitespace characters becomes
\* one space; a single whitespace character is left as it is
\* (the first character of a run becomes the space, the others are dropped)
Dropped == "<dropped>"
CollapseMarks(s) ==
    [i \in 1..Len(s) |->
        IF s[i] \notin WhiteSpace THEN s[i]
        ELSE IF i > 1 /\ s[i-1] \in WhiteSpace THEN Dropped
        ELSE IF i < Len(s) /\ s[i+1] \in WhiteSpace THEN " "
        ELSE s[i]]
NotDropped(x) == x # Dropped
CollapseSpaces(s) == SelectSeq(CollapseMarks(s), NotDropped)

\* .trim()
Trim(s) ==
    IF \A i \in 1..Len(s) : s[i] \in WhiteSpace THEN <<>>
    ELSE LET lo == CHOOSE i \in 1..Len(s) :
                      /\ s[i] \notin WhiteSpace
                      /\ \A j \in 1..(i-1) : s[j] \in WhiteSpace
             hi == CHOOSE i \in 1..Len(s) :
                      /\ s[i] \notin WhiteSpace
                      /\ \A j \in (i+1)..Len(s) : s[j] \in WhiteSpace
         IN  SubSeq(s, lo, hi)

\* the limit of text.substring(0, 15000)
TextLimit == 15000

\* a variant of the last line that returns the whole text
Substring0Unlimited(s, n) == s

\* line 81: text.substring(0, n)
Substring0(s, n) == SubSeq(s, 1, IF Len(s) < n THEN Len(s) ELSE n)

\* lines 71-78: the text of the body region, cleaned
CleanText(inner) ==
    Trim(CollapseSpaces(TagsToSpaces(
      RemoveRegion(
        RemoveRegion(
          RemoveRegion(
            RemoveRegion(inner, "<style>", "</style>"),
            "<script>", "</script>"),
          "<nav>", "</nav>"),
        "<footer>", "</footer>"))))

ExtractTextFromHtml(html) ==
    LET m == BodyMatch(html)
    IN  IF ~m.matched THEN <<>>
        ELSE Substring0(CleanText(m.inner), TextLimit)

(***************************************************************************)
(* The state.                                                              *)
(***************************************************************************)
VARIABLES
    env_key,      \* process.env.GEMINI_API_KEY (NULL when not set)
    calls,        \* the runSingleAudit calls: position, input, response
    lastIndex,    \* linkRegex.lastIndex, state of the module-level /g regex
    crawl,        \* the crawlLinksForAudit call in progress or last finished
    auditState,   \* page.tsx: the AuditState of ContentQaPage
    batch,        \* the runAudits call in progress or just finished
    shots,        \* the takeScreenshots call in progress or last finished
    extraction,   \* the last extractTextFromHtml call: its markup and text
    modal,        \* AuditResults: selectedResult and isModalOpen
    client        \* what this run exercises: "single" (runSingleAudit),
                  \* "crawl" (crawlLinksForAudit), "page" (a submission of
                  \* the page), "direct" (runAudits called by another
                  \* client of the server action), "shots"
                  \* (takeScreenshots) or "extract" (extractTextFromHtml)

vars == <<env_key, calls, lastIndex, crawl, auditState, batch, shots,
         extraction, client, modal>>
auditVars == <<env_key, calls>>
crawlVars == <<lastIndex, crawl>>
batchVars == <<auditState, batch, client>>

(***************************************************************************)
(* Inputs of the model.                                                    *)
(***************************************************************************)
HTTPS == <<"h","t","t","p","s",":","/","/">>
HostA == <<"a",".","c","o","m">>
HostB == <<"b",".","c","o","m">>
\* a host that only begins with the name of HostA
HostAEvil == HostA \o <<".","e","v","i","l",".","c","o","m">>

\* a submitted URL with a query and a fragment, and a string that is no URL
UrlP == HTTPS \o HostA \o <<"/","p","?","x","=","1","#","y">>
NotAUrl == <<"n","o","t"," ","a"," ","u","r","l">>
\* a submitted URL without a scheme
NoSchemeQ == HostA \o <<"/","q">>

\* pages: with text, without a body region, empty
HtmlHello == <<"<html>", "<script>", "x", "</script>", "<body>", "H", "i", " ",
               "<b>", "W", "</b>", "</body>", "</html>">>
HtmlNoBody == <<"<html>", "<p>", "H", "i", "</p>", "</html>">>
HtmlEmpty == <<>>
Pages == {HtmlHello, HtmlNoBody, HtmlEmpty}

\* what fetch() may do: a response with a status and a body, or a rejection
FetchOutcomes ==
    [kind : {"response"}, ok : {TRUE}, status : {200}, body : Pages]
    \cup [kind : {"response"}, ok : {FALSE}, status : {500}, body : {HtmlHello}]
    \cup [kind : {"rejects"}, ok : {FALSE}, status : {0}, body : {HtmlEmpty}]

\* what the prompt of the analysis flow may produce: an output that has the
\* shape of the output schema, with any number as its score; an output that
\* has not (none at all, a missing list); or an error of the service
Scores == {0, 150}
Report(score) == [complianceScore |-> score, flaggedIssues |-> <<>>,
                  suggestedRewrites |-> <<>>, recommendations |-> <<>>]
PromptOutcomes ==
    [kind : {"output"}, output : {Report(n) : n \in Scores}]
    \cup [kind : {"malformed", "throws"}, output : {Report(0)}]

Guidelines == {"", "Be formal."}
ApiKeys == {NULL, "k1", "k2"}
AuditInputs == [brandGuidelines : Guidelines, url : {UrlP, NoSchemeQ, NotAUrl},
                apiKey : ApiKeys]

(***************************************************************************)
(* Error messages.  A message is the text the code writes, the URL it      *)
(* puts into it and the cause it wraps.                                    *)
(***************************************************************************)
Msg(text, url, cause, status) ==
    [text |-> text, url |-> url, cause |-> cause, status |-> status]

\* line 124: the messages of the failed fields, joined by ', '
InvalidInputMsg(values) ==
    Msg(IF values.brandGuidelines = "" /\ ~ZodUrl(values.url)
        THEN "Brand guidelines are required., A valid URL is required."
        ELSE IF values.brandGuidelines = ""
        THEN "Brand guidelines are required."
        ELSE "A valid URL is required.", <<>>, "", 0)
NoKeyMsg == Msg("Gemini API key is not set. Please provide it.", <<>>, "", 0)
NoContentMsg == Msg("Could not extract meaningful content from URL.", <<>>, "", 0)
AnalysisErrorMsg(kind) ==
    Msg(IF kind = "malformed" THEN "Schema validation failed"
        ELSE "analysis service error", <<>>, "", 0)

\* an optional value: <<>> when absent, <<v>> when present
None == <<>>
Some(v) == <<v>>

(***************************************************************************)
(* fetchWebsiteContent: the markup, or an error that wraps the cause.      *)
(***************************************************************************)
\* a variant without the check of response.ok (line 49)
FetchWebsiteContentNoOkCheck(url, f) ==
    IF f.kind = "rejects"
    THEN [threw |-> TRUE, html |-> <<>>,
          message |-> Msg("Could not retrieve content from", url, "fetch failed", 0)]
    ELSE [threw |-> FALSE, html |-> f.body, message |-> NoContentMsg]

FetchWebsiteContent(url, f) ==
    IF f.kind = "rejects"
    THEN [threw |-> TRUE, html |-> <<>>,
          message |-> Msg("Could not retrieve content from", url, "fetch failed", 0)]
    ELSE IF ~f.ok
    THEN [threw |-> TRUE, html |-> <<>>,
          message |-> Msg("Could not retrieve content from", url,
                          "Failed to fetch URL:", f.status)]
    ELSE [threw |-> FALSE, html |-> f.body, message |-> NoContentMsg]

(***************************************************************************)
(* analyzeContentCompliance: the flow returns the output of the prompt;    *)
(* the flow's outputSchema rejects an output that has not its shape.  The  *)
(* schema takes any number as complianceScore.                             *)
(***************************************************************************)
OutputSchemaAccepts(p) == p.kind = "output"

AnalyzeContentCompliance(p) ==
    IF p.kind = "throws" \/ ~OutputSchemaAccepts(p)
    THEN [threw |-> TRUE, output |-> p.output, message |-> AnalysisErrorMsg(p.kind)]
    ELSE [threw |-> FALSE, output |-> p.output, message |-> NoContentMsg]

(***************************************************************************)
(* runSingleAudit.                                                         *)
(***************************************************************************)
\* a variant that goes on without looking at validation.success (line 123)
SingleAuditInputUnchecked(values) == TRUE

\* SingleAuditInputSchema.safeParse(values).success
SingleAuditInputValid(values) ==
    /\ values.brandGuidelines # ""
    /\ ZodUrl(values.url)

\* a variant that stores the URL without its fragment and query
SuccessResultStripped(url, analysis) ==
    [url |-> SplitHead(SplitHead(url, "#"), "?"), status |-> "success",
     data |-> Some(analysis), error |-> None]

\* a variant that hands the report back with the status still pending
SuccessResultPending(url, analysis) ==
    [url |-> url, status |-> "pending", data |-> Some(analysis), error |-> None]

\* line 153: the result of a successful audit
SuccessResult(url, analysis) ==
    [url |-> url, status |-> "success", data |-> Some(analysis), error |-> None]
\* a variant of the catch block that leaves the message out of the result
ErrorResultWithoutMessage(url, message) ==
    [url |-> url, status |-> "error", data |-> None, error |-> None]

ErrorResult(url, message) ==
    [url |-> url, status |-> "error", data |-> None, error |-> Some(message)]

\* the three shapes of response the function returns
Rejected(message) ==
    [success |-> FALSE, result |-> None, error |-> Some(message)]
\* a variant of the catch block that returns no result, as lines 125 and 136 do
FailedWithoutResult(url, message) ==
    [success |-> FALSE, result |-> None, error |-> Some(message)]

Failed(url, message) ==
    [success |-> FALSE, result |-> Some(ErrorResult(url, message)),
     error |-> Some(message)]
Succeeded(url, analysis) ==
    [success |-> TRUE, result |-> Some(SuccessResult(url, analysis)),
     error |-> None]

NoResponse == [success |-> FALSE, result |-> None, error |-> None]
IdleCall == [pc |-> "idle", values |-> [brandGuidelines |-> "", url |-> <<>>,
                                        apiKey |-> NULL],
             fetches |-> 0, analyses |-> 0, fetched |-> <<>>,
             analyzed |-> <<>>, websiteContent |-> <<>>, analysisKey |-> NULL,
             response |-> NoResponse]

CallIds == 1..MaxCalls

\* lines 121-140: validation, the API key, and the call of fetch (the calls
\* are numbered in the order in which they are made)
RunSingleAuditStart(c, values) ==
    /\ client = "single"
    /\ calls[c].pc = "idle"
    /\ \A d \in 1..(c-1) : calls[d].pc # "idle"
    /\ IF ~SingleAuditInputValid(values)
       THEN /\ calls' = [calls EXCEPT ![c] = [@ EXCEPT !.pc = "returned",
                             !.values = values,
                             !.response = Rejected(InvalidInputMsg(values))]]
            /\ env_key' = env_key
       ELSE /\ env_key' = IF values.apiKey # NULL THEN values.apiKey ELSE env_key
            /\ IF env_key' = NULL
               THEN calls' = [calls EXCEPT ![c] = [@ EXCEPT !.pc = "returned",
                             !.values = values,
                             !.response = Rejected(NoKeyMsg)]]
               ELSE calls' = [calls EXCEPT ![c] = [@ EXCEPT !.pc = "fetching",
                             !.values = values,
                             !.fetches = @ + 1]]
    /\ UNCHANGED <<modal, extraction, shots, crawlVars, batchVars>>

\* lines 140-151 and 154-157: what the function does when the fetch has
\* settled: it returns the caught error, or extracts the text and goes on to
\* the analysis
AfterFetch(url, f) ==
    LET got == FetchWebsiteContent(url, f)
    IN  IF got.threw
        THEN [returns |-> TRUE, response |-> Failed(url, got.message),
              websiteContent |-> <<>>]
        ELSE IF got.html = <<>>
        THEN [returns |-> TRUE, response |-> Failed(url, NoContentMsg),
              websiteContent |-> <<>>]
        ELSE [returns |-> FALSE, response |-> NoResponse,
              websiteContent |-> ExtractTextFromHtml(got.html)]

\* lines 147-157: what the function returns when the analysis has settled
AfterAnalysis(url, p) ==
    LET got == AnalyzeContentCompliance(p)
    IN  IF got.threw THEN Failed(url, got.message)
        ELSE Succeeded(url, got.output)

RunSingleAuditFetched(c, f) ==
    /\ calls[c].pc = "fetching"
    /\ LET step == AfterFetch(calls[c].values.url, f)
       IN  IF step.returns
           THEN calls' = [calls EXCEPT ![c] = [@ EXCEPT !.pc = "returned",
                             !.fetched = Some(f),
                             !.response = step.response]]
           ELSE calls' = [calls EXCEPT ![c] = [@ EXCEPT !.pc = "analyzing",
                             !.fetched = Some(f),
                             !.websiteContent = step.websiteContent,
                             !.analyses = @ + 1,
                             !.analysisKey = env_key]]
    /\ UNCHANGED <<modal, extraction, shots, env_key, crawlVars, batchVars>>

RunSingleAuditAnalyzed(c, p) ==
    /\ calls[c].pc = "analyzing"
    /\ calls' = [calls EXCEPT ![c] = [@ EXCEPT !.pc = "returned",
                    !.analyzed = Some(p),
                    !.response = AfterAnalysis(calls[c].values.url, p)]]
    /\ UNCHANGED <<modal, extraction, shots, env_key, crawlVars, batchVars>>

NextAudit ==
    \/ \E c \in CallIds, values \in AuditInputs : RunSingleAuditStart(c, values)
    \/ \E c \in CallIds, f \in FetchOutcomes : RunSingleAuditFetched(c, f)
    \/ \E c \in CallIds, p \in PromptOutcomes : RunSingleAuditAnalyzed(c, p)

(***************************************************************************)
(* crawlLinksForAudit.  The markup of the scanned page is the sequence of  *)
(* the href values of its anchors, in document order; linkRegex.lastIndex  *)
(* counts the anchors the regex has gone past.                             *)
(***************************************************************************)
\* bound: anchors on a scanned page
MaxAnchors == 2

HrefQ == HTTPS \o HostA \o <<"/","q">>
HrefQFrag == HrefQ \o <<"#","f">>
HrefQQuery == HrefQ \o <<"?","x">>
HrefB == HTTPS \o HostB \o <<"/","r">>
HrefEvil == HTTPS \o HostAEvil \o <<"/","x">>
HrefS == <<"/","s">>
HrefRel == <<"s">>
\* an href that new URL() cannot resolve
HrefBad == HTTPS
Hrefs == {HrefQ, HrefQFrag, HrefQQuery, HrefB, HrefEvil, HrefS, HrefRel, HrefBad}

RECURSIVE SeqsUpTo(_, _)
SeqsUpTo(S, n) ==
    IF n = 0 THEN {<<>>}
    ELSE LET shorter == SeqsUpTo(S, n - 1)
         IN  shorter \cup {Append(q, x) : q \in shorter, x \in S}

StartP == HTTPS \o HostA \o <<"/","p">>
StartDirP == HTTPS \o HostA \o <<"/","d","/","p">>
CrawlInputs == [startUrl : {StartP, StartDirP, NotAUrl}]

CrawlFetchOutcomes ==
    [kind : {"response"}, ok : {TRUE}, status : {200},
     anchors : SeqsUpTo(Hrefs, MaxAnchors)]
    \cup [kind : {"response"}, ok : {FALSE}, status : {404, 500}, anchors : {<<>>}]
    \cup [kind : {"rejects"}, ok : {FALSE}, status : {0}, anchors : {<<>>}]

\* line 94: `${new URL(startUrl).protocol}//${new URL(startUrl).hostname}`
BaseUrl(startUrl) ==
    LET u == ParseUrl(startUrl)
    IN  Protocol(u) \o <<"/", "/">> \o Hostname(u)

\* line 107: the same-domain test
SameDomain(foundUrl, baseUrl) == StartsWith(foundUrl, baseUrl)

\* line 109: foundUrl.split('#')[0].split('?')[0]
NormalizeLink(foundUrl) == SplitHead(SplitHead(foundUrl, "#"), "?")

\* Set.prototype.add on a Set kept in insertion order
SetAdd(links, x) ==
    IF \E i \in 1..Len(links) : links[i] = x THEN links ELSE Append(links, x)

\* lines 104-111: the loop over linkRegex.exec(html), which starts at
\* lastIndex; exec sets lastIndex past each match and back to 0 when it finds
\* no further match; new URL() throws on an href it cannot resolve
RECURSIVE ScanLinks(_, _, _, _)
ScanLinks(anchors, baseUrl, i, links) ==
    IF i > Len(anchors)
    THEN [threw |-> FALSE, links |-> links, lastIndex |-> 0]
    ELSE LET u == ResolveUrl(anchors[i], ParseUrl(baseUrl))
         IN  IF ~u.ok
             THEN [threw |-> TRUE, links |-> links, lastIndex |-> i]
             ELSE ScanLinks(anchors, baseUrl, i + 1,
                            IF SameDomain(Href(u), baseUrl)
                            THEN SetAdd(links, NormalizeLink(Href(u)))
                            ELSE links)

CrawlOk(links) == [success |-> TRUE, links |-> Some(links), error |-> None]
CrawlFailed(message) == [success |-> FALSE, links |-> None, error |-> Some(message)]

\* a variant of the catch block that reports an empty list of links
CrawlFetchFailureAsEmpty(f) == CrawlOk(<<>>)

\* lines 113-115: what the catch block returns for an error of the fetch
CrawlFetchFailure(f) ==
    CrawlFailed(IF f.kind = "rejects"
                THEN Msg("fetch failed", <<>>, "", 0)
                ELSE Msg("Failed to fetch start URL:", <<>>, "", f.status))

\* a variant of the call of fetch that requests the page twice
CrawlRequestsTwice(startUrl) == <<startUrl, startUrl>>

\* line 96: fetch(startUrl), the only request of the function
CrawlRequests(startUrl) == <<startUrl>>

\* requested: the URLs the call has passed to fetch, in order
IdleCrawl == [pc |-> "idle", startUrl |-> <<>>, fetches |-> 0,
              requested |-> <<>>,
              fetched |-> <<>>, scanFrom |-> 0,
              response |-> [success |-> FALSE, links |-> None, error |-> None]]

\* lines 88-97: validation, and the call of fetch
CrawlStart(values) ==
    /\ client = "crawl"
    /\ crawl.pc \in {"idle", "returned"}
    /\ IF ~ZodUrl(values.startUrl)
       THEN crawl' = [IdleCrawl EXCEPT !.pc = "returned",
                         !.startUrl = values.startUrl,
                         !.response = CrawlFailed(
                             Msg("A valid starting URL is required.", <<>>, "", 0))]
       ELSE crawl' = [IdleCrawl EXCEPT !.pc = "fetching",
                         !.startUrl = values.startUrl,
                         !.requested = CrawlRequests(values.startUrl),
                         !.fetches = 1]
    /\ lastIndex' = lastIndex
    /\ UNCHANGED <<modal, extraction, shots, auditVars, batchVars>>

\* lines 97-115: the fetch settles; the markup is scanned for links
CrawlFetched(f) ==
    /\ crawl.pc = "fetching"
    /\ IF f.kind = "rejects" \/ ~f.ok
       THEN /\ crawl' = [crawl EXCEPT !.pc = "returned", !.fetched = Some(f),
                            !.response = CrawlFetchFailure(f)]
            /\ lastIndex' = lastIndex
       ELSE LET scan == ScanLinks(f.anchors, BaseUrl(crawl.startUrl),
                                  lastIndex + 1, <<>>)
            IN  /\ crawl' = [crawl EXCEPT !.pc = "returned",
                                !.fetched = Some(f),
                                !.scanFrom = lastIndex,
                                !.response =
                                    IF scan.threw
                                    THEN CrawlFailed(Msg("Invalid URL", <<>>, "", 0))
                                    ELSE CrawlOk(scan.links)]
                /\ lastIndex' = scan.lastIndex
    /\ UNCHANGED <<modal, extraction, shots, auditVars, batchVars>>

NextCrawl ==
    \/ \E values \in CrawlInputs : CrawlStart(values)
    \/ \E f \in CrawlFetchOutcomes : CrawlFetched(f)

(***************************************************************************)
(* runAudits, the batch action that page.tsx imports.  Its code is not in  *)
(* actions.ts; it is modelled from the specification of the Audit          *)
(* Orchestrator (spec.md 4.1, 4.4, 4.7) and runs, for each URL of the      *)
(* working set, the pipeline of runSingleAudit (AfterFetch, AfterAnalysis).*)
(***************************************************************************)
\* bound: entries in the URL field of one submission
MaxUrls == 2

\* 4.1 URL Normalizer: scheme defaulted to https, then parsed
NormalizedUrl(raw) ==
    LET s == IF SchemeOf(raw) = <<>> THEN HTTPS \o raw ELSE raw
        u == ParseUrl(s)
    IN  IF u.ok THEN Some(Href(u)) ELSE None

\* 4.7 step 2 and 3: a URL joins the working set unless it is already in it
MergeUrl(working, url) ==
    IF \E i \in 1..Len(working) : working[i] = url THEN working
    ELSE Append(working, url)

RECURSIVE MergeUrls(_, _)
MergeUrls(working, urls) ==
    IF urls = <<>> THEN working
    ELSE MergeUrls(MergeUrl(working, Head(urls)), Tail(urls))

RECURSIVE NormalizeAll(_)
NormalizeAll(raws) ==
    IF raws = <<>> THEN <<>>
    ELSE NormalizedUrl(Head(raws)) \o NormalizeAll(Tail(raws))

\* 4.7 step 2: the submitted URLs, normalized, the unparseable ones dropped
WorkingSet(raws) == MergeUrls(<<>>, NormalizeAll(raws))

\* 4.7 step 1
BatchRequestValid(request) ==
    /\ request.guidelineText # ""
    /\ WorkingSet(request.urls) # <<>>

\* 4.4: the links of the first URL's page; a page that cannot be fetched or
\* scanned gives no links
DiscoveredLinks(first, f, from) ==
    IF f.kind = "rejects" \/ ~f.ok THEN <<>>
    ELSE LET scan == ScanLinks(f.anchors, BaseUrl(first), from + 1, <<>>)
         IN  IF scan.threw THEN <<>> ELSE scan.links

BatchOk(results) == [success |-> TRUE, results |-> results, error |-> None]
BatchFailed(message) == [success |-> FALSE, results |-> <<>>, error |-> Some(message)]

BatchUrlInputs == SeqsUpTo({UrlP, NoSchemeQ, NotAUrl}, MaxUrls)
BatchRequests == [guidelineText : Guidelines, urls : BatchUrlInputs,
                  autoDiscover : BOOLEAN]
BatchFetchOutcomes ==
    { f \in FetchOutcomes : f.kind = "response" }
BatchPromptOutcomes ==
    { q \in PromptOutcomes : q.kind # "malformed" /\ q.output = Report(0) }
DiscoveryOutcomes ==
    [kind : {"response"}, ok : {TRUE}, status : {200},
     anchors : {<<>>, <<HrefQFrag, HrefB, HrefS>>, <<HrefS, HrefBad>>}]
    \cup [kind : {"response"}, ok : {FALSE}, status : {500}, anchors : {<<>>}]

IdleBatch == [pc |-> "idle",
              request |-> [guidelineText |-> "", urls |-> <<>>,
                           autoDiscover |-> FALSE],
              working |-> <<>>, discovered |-> <<>>, results |-> <<>>,
              log |-> <<>>,
              fetches |-> 0, analyses |-> 0,
              response |-> [success |-> FALSE, results |-> <<>>, error |-> None]]

\* 4.7 steps 1-2: the request is validated and the working set resolved
RunAuditsBegin(request) ==
    IF ~BatchRequestValid(request)
    THEN [IdleBatch EXCEPT !.pc = "returned",
             !.request = request,
             !.response = BatchFailed(Msg("InvalidRequest", <<>>, "", 0))]
    ELSE [IdleBatch EXCEPT !.pc = IF request.autoDiscover THEN "discovering"
                                    ELSE "auditing",
             !.request = request,
             !.working = WorkingSet(request.urls),
             !.fetches = IF request.autoDiscover THEN 1 ELSE 0]

(***************************************************************************)
(* page.tsx: handleRunAudit.                                               *)
(***************************************************************************)
InitialAuditState == [isLoading |-> FALSE, results |-> <<>>, error |-> None]
LoadingAuditState == [isLoading |-> TRUE, results |-> <<>>, error |-> None]

\* urls.trim() of the URL field, whose entries are the elements of urls
UrlsBlank(urls) ==
    \A i \in 1..Len(urls) : \A j \in 1..Len(urls[i]) : urls[i][j] \in WhiteSpace

\* lines 38-60: the two checks of the form, then the call of runAudits (the
\* form can be submitted while it is not disabled)
HandleRunAudit(brandGuidelines, urls) ==
    /\ client = "page"
    /\ ~auditState.isLoading
    /\ batch.pc = "idle"
    /\ IF brandGuidelines = "" \/ UrlsBlank(urls)
       THEN /\ auditState' = auditState
            /\ batch' = [IdleBatch EXCEPT
                            !.request = [guidelineText |-> brandGuidelines,
                                         urls |-> urls, autoDiscover |-> FALSE]]
       ELSE /\ auditState' = LoadingAuditState
            /\ batch' = RunAuditsBegin(
                            [guidelineText |-> brandGuidelines, urls |-> urls,
                             autoDiscover |-> FALSE])
    /\ UNCHANGED <<modal, extraction, shots, client, auditVars, crawlVars>>

\* a variant that keeps the message of the response next to its results
AuditStateAfterKeepingError(response) ==
    [isLoading |-> FALSE, results |-> response.results,
     error |-> IF response.error # None THEN response.error
               ELSE Some(Msg("An unexpected error occurred.", <<>>, "", 0))]

\* lines 62-75: the AuditState set for a response of runAudits
AuditStateAfter(response) ==
    IF response.success
    THEN [isLoading |-> FALSE, results |-> response.results, error |-> None]
    ELSE [isLoading |-> FALSE, results |-> <<>>,
          error |-> IF response.error # None THEN response.error
                    ELSE Some(Msg("An unexpected error occurred.", <<>>, "", 0))]

\* audit-results.tsx lines 240-277: what AuditResults renders
AuditResultsView(state) ==
    IF state.isLoading /\ Len(state.results) = 0 THEN "progress"
    ELSE IF state.error # None /\ ~state.isLoading THEN "error"
    ELSE IF Len(state.results) = 0 /\ ~state.isLoading THEN "empty"
    ELSE "table"

\* lines 62-75: the response of runAudits arrives (the finished call is then
\* forgotten)
HandleRunAuditResponse ==
    /\ auditState.isLoading
    /\ batch.pc = "returned"
    /\ client = "page"
    /\ auditState' = AuditStateAfter(batch.response)
    /\ batch' = IdleBatch
    /\ UNCHANGED <<modal, extraction, shots, client, auditVars, crawlVars>>

\* line 60: the promise of runAudits is rejected (the request to the server
\* action fails, or the action throws); the await throws, handleRunAudit has
\* no try around it, and none of its later lines runs
HandleRunAuditRejected ==
    /\ client = "page"
    /\ auditState.isLoading
    /\ batch.pc = "auditing"
    /\ batch' = [IdleBatch EXCEPT !.pc = "rejected",
                                    !.request = batch.request]
    /\ auditState' = auditState
    /\ UNCHANGED <<modal, extraction, shots, client, auditVars, crawlVars>>

\* lines 117 and 121: disabled={auditState.isLoading} on the URL field and on
\* the submit button
FormDisabled == auditState.isLoading

\* runAudits called by another client of the server action
RunAuditsDirect(request) ==
    /\ client = "direct"
    /\ batch.pc = "idle"
    /\ batch' = RunAuditsBegin(request)
    /\ UNCHANGED <<modal, extraction, shots, client, auditState, auditVars, crawlVars>>

\* the other client has its response (the finished call is then forgotten)
RunAuditsDirectDone ==
    /\ client = "direct"
    /\ batch.pc = "returned"
    /\ batch' = IdleBatch
    /\ UNCHANGED <<modal, extraction, shots, auditState, client, auditVars, crawlVars>>

\* 4.7 step 3: the first URL's page has been fetched; its links are merged
RunAuditsDiscovered(f) ==
    /\ batch.pc = "discovering"
    /\ LET scan == IF f.kind = "rejects" \/ ~f.ok
                   THEN [threw |-> FALSE, links |-> <<>>, lastIndex |-> lastIndex]
                   ELSE ScanLinks(f.anchors, BaseUrl(batch.working[1]),
                                  lastIndex + 1, <<>>)
           found == DiscoveredLinks(batch.working[1], f, lastIndex)
       IN  /\ batch' = [batch EXCEPT !.pc = "auditing",
                           !.discovered = found,
                           !.working = MergeUrls(@, found)]
           /\ lastIndex' = scan.lastIndex
    /\ UNCHANGED <<modal, extraction, shots, auditState, client, crawl, auditVars>>

\* 4.7 step 4: the next URL of the working set is audited: fetch, extract,
\* analyze; its result is appended
RunAuditsNext(f, p) ==
    /\ batch.pc = "auditing"
    /\ Len(batch.log) < Len(batch.working)
    /\ LET url  == batch.working[Len(batch.log) + 1]
           step == AfterFetch(url, f)
           resp == IF step.returns THEN step.response ELSE AfterAnalysis(url, p)
       IN  batch' = [batch EXCEPT
                        !.results = @ \o resp.result,
                        !.log = Append(@, [url |-> url, fetched |-> f,
                                           analyzed |-> IF step.returns THEN None
                                                        ELSE Some(p)]),
                        !.fetches = @ + 1,
                        !.analyses = IF step.returns THEN @ ELSE @ + 1]
    /\ UNCHANGED <<modal, extraction, shots, auditState, client, auditVars, crawlVars>>

\* 4.7 step 5: the completed batch is returned
RunAuditsReturn ==
    /\ batch.pc = "auditing"
    /\ Len(batch.log) = Len(batch.working)
    /\ batch' = [batch EXCEPT !.pc = "returned",
                                !.response = BatchOk(batch.results)]
    /\ UNCHANGED <<modal, extraction, shots, auditState, client, auditVars, crawlVars>>

\* a submission of the page and the batch it starts
NextPage ==
    \/ \E g \in Guidelines, urls \in BatchUrlInputs : HandleRunAudit(g, urls)
    \/ HandleRunAuditResponse
    \/ HandleRunAuditRejected
    \/ \E f \in BatchFetchOutcomes, p \in BatchPromptOutcomes : RunAuditsNext(f, p)
    \/ RunAuditsReturn

\* the steps that do not wait for the user or for a failure: the server goes
\* on with the batch, and the page runs the continuation of its await
PageProgress ==
    \/ HandleRunAuditResponse
    \/ \E f \in BatchFetchOutcomes, p \in BatchPromptOutcomes : RunAuditsNext(f, p)
    \/ RunAuditsReturn

NextBatch ==
    \/ NextPage
    \/ \E request \in BatchRequests : RunAuditsDirect(request)
    \/ RunAuditsDirectDone
    \/ \E f \in DiscoveryOutcomes : RunAuditsDiscovered(f)

(***************************************************************************)
(* audit-results.tsx: the table of results and the details dialog.         *)
(***************************************************************************)
\* lines 174-175: selectedResult, isModalOpen
ClosedModal == [selectedResult |-> None, isModalOpen |-> FALSE]

\* lines 323-349: the cells of the row of one result: its URL, the badge with
\* its status, the score or 'N/A', and the View Details button
RowView(result) ==
    [url     |-> result.url,
     badge   |-> result.status,
     score   |-> IF result.status = "success" /\ result.data # None
                 THEN Some(result.data[1].complianceScore) ELSE None,
     detailsDisabled |-> result.status # "success"]

\* line 178: handleViewDetails returns at once for these results
DetailsRefused(result) == result.status = "pending" \/ result.status = "error"

\* lines 84-164: what the dialog shows: nothing while closed, the report of a
\* successful result, and the Audit Failed alert with result.error otherwise
DialogView(m) ==
    IF ~m.isModalOpen \/ m.selectedResult = None THEN [shown |-> "nothing"]
    ELSE LET result == m.selectedResult[1]
         IN  IF result.status = "success" /\ result.data # None
             THEN [shown |-> "report", url |-> result.url,
                   data |-> result.data[1]]
             ELSE [shown |-> "failed", url |-> result.url,
                   error |-> result.error]

\* lines 177-181 and 343: a click on the View Details button of row i of the
\* table, which is possible while the button is not disabled and the dialog
\* does not cover the table
HandleViewDetails(i) ==
    /\ client = "page"
    /\ AuditResultsView(auditState) = "table"
    /\ ~modal.isModalOpen
    /\ LET result == auditState.results[i]
       IN  /\ ~RowView(result).detailsDisabled
           /\ modal' = IF DetailsRefused(result) THEN modal
                       ELSE [selectedResult |-> Some(result),
                             isModalOpen |-> TRUE]
    /\ UNCHANGED <<auditVars, crawlVars, batchVars, shots, extraction>>

\* line 354: onOpenChange={setIsModalOpen}, the dialog is closed
OnOpenChange(open) ==
    /\ client = "page"
    /\ modal.isModalOpen
    /\ modal' = [modal EXCEPT !.isModalOpen = open]
    /\ UNCHANGED <<auditVars, crawlVars, batchVars, shots, extraction>>

NextView ==
    \/ \E i \in 1..Len(auditState.results) : HandleViewDetails(i)
    \/ OnOpenChange(FALSE)

(***************************************************************************)
(* takeScreenshots.                                                        *)
(***************************************************************************)
\* bound: selectors in one call
MaxSelectors == 2

Selectors == {"h1", ".hero"}
ScreenshotInputs == [url : {UrlP, NotAUrl},
                     selectors : SeqsUpTo(Selectors, MaxSelectors)]

\* ScreenshotInputSchema.safeParse(values).success
ScreenshotInputValid(values) == ZodUrl(values.url)

ShotsOk(screenshots) ==
    [success |-> TRUE, screenshots |-> Some(screenshots), error |-> None]
\* a variant of the failure response that reports success with no screenshot
ShotsFailedAsEmpty(message) == ShotsOk(<<>>)
ShotsFailed(message) ==
    [success |-> FALSE, screenshots |-> None, error |-> Some(message)]

\* browser: the variable of line 173 is not null; open: the browser process
\* runs; outcomes: what happened to each selector handled so far
IdleShots == [pc |-> "idle", values |-> [url |-> <<>>, selectors |-> <<>>],
              launches |-> 0, browser |-> FALSE, open |-> FALSE,
              closes |-> 0, at |-> 0,
              outcomes |-> <<>>, screenshots |-> <<>>,
              response |-> [success |-> FALSE, screenshots |-> None,
                            error |-> None]]

\* a variant of the finally block that closes nothing
FinallyWithoutClose(s) == s

\* lines 210-214: finally { if (browser) await browser.close() }
Finally(s) ==
    IF s.browser THEN [s EXCEPT !.open = FALSE, !.closes = @ + 1] ELSE s

\* a variant of the loop body that pushes a screenshot whatever page.$ gave
CaptureSelectorAlways(screenshots, selector, outcome) ==
    Append(screenshots, [selector |-> selector, screenshot |-> "base64"])

\* lines 188-202: the body of the loop for one selector: the element is
\* captured and pushed; a selector without element, or a capture that throws,
\* pushes nothing
CaptureSelector(screenshots, selector, outcome) ==
    IF outcome = "element"
    THEN Append(screenshots, [selector |-> selector, screenshot |-> "base64"])
    ELSE screenshots

\* lines 163-179: validation, the empty list of selectors, the launch
TakeScreenshotsStart(values) ==
    /\ client = "shots"
    /\ shots.pc \in {"idle", "returned"}
    /\ shots' =
         IF ~ScreenshotInputValid(values)
         THEN [IdleShots EXCEPT !.pc = "returned", !.values = values,
                  !.response = ShotsFailed("Invalid input for screenshot action.")]
         ELSE IF Len(values.selectors) = 0
         THEN [IdleShots EXCEPT !.pc = "returned", !.values = values,
                  !.response = ShotsOk(<<>>)]
         ELSE [IdleShots EXCEPT !.pc = "launching", !.values = values,
                  !.launches = 1]
    /\ UNCHANGED <<modal, extraction, client, auditState, batch, auditVars, crawlVars>>

\* lines 174-179 and 206-214: puppeteer.launch settles; when it rejects,
\* browser is still null and nothing is closed
TakeScreenshotsLaunched(ok) ==
    /\ shots.pc = "launching"
    /\ shots' =
         IF ok THEN [shots EXCEPT !.pc = "loading", !.browser = TRUE,
                        !.open = TRUE]
         ELSE Finally([shots EXCEPT !.pc = "returned",
                          !.response = ShotsFailed("launch failed")])
    /\ UNCHANGED <<modal, extraction, client, auditState, batch, auditVars, crawlVars>>

\* lines 181-183 and 206-214: the page is opened and loaded; a failure is
\* caught, and the browser is closed
TakeScreenshotsLoaded(ok) ==
    /\ shots.pc = "loading"
    /\ shots' =
         IF ok THEN [shots EXCEPT !.pc = "capturing", !.at = 1]
         ELSE Finally([shots EXCEPT !.pc = "returned",
                          !.response = ShotsFailed("navigation failed")])
    /\ UNCHANGED <<modal, extraction, client, auditState, batch, auditVars, crawlVars>>

\* lines 187-203: one selector: its element is captured, or it is not found,
\* or the capture throws and is caught
TakeScreenshotsCapture(outcome) ==
    /\ shots.pc = "capturing"
    /\ shots.at <= Len(shots.values.selectors)
    /\ shots' = [shots EXCEPT !.at = @ + 1,
                    !.outcomes = Append(@, outcome),
                    !.screenshots =
                       CaptureSelector(@, shots.values.selectors[shots.at],
                                       outcome)]
    /\ UNCHANGED <<modal, extraction, client, auditState, batch, auditVars, crawlVars>>

\* lines 205 and 210-214: the screenshots are returned, the browser closed
TakeScreenshotsReturn ==
    /\ shots.pc = "capturing"
    /\ shots.at > Len(shots.values.selectors)
    /\ shots' = Finally([shots EXCEPT !.pc = "returned",
                            !.response = ShotsOk(shots.screenshots)])
    /\ UNCHANGED <<modal, extraction, client, auditState, batch, auditVars, crawlVars>>

NextShots ==
    \/ \E values \in ScreenshotInputs : TakeScreenshotsStart(values)
    \/ \E ok \in BOOLEAN : TakeScreenshotsLaunched(ok)
    \/ \E ok \in BOOLEAN : TakeScreenshotsLoaded(ok)
    \/ \E outcome \in {"element", "none", "throws"} : TakeScreenshotsCapture(outcome)
    \/ TakeScreenshotsReturn

(***************************************************************************)
(* extractTextFromHtml, called on its own.                                 *)
(***************************************************************************)
\* bound: tokens in the body of a short page
MaxTokens == 3

BodyTokens == {"a", " ", "\n", "<p>", "<script>", "</script>"}
InBody(inner) == <<"<html>", "<body>">> \o inner \o <<"</body>", "</html>">>
LongText(n) == [i \in 1..n |-> "x"]
\* pages whose text is as long as the limit, or one character off it, and a
\* page whose long text is preceded by a tag and followed by white space
LongPages ==
    {InBody(LongText(n)) : n \in {TextLimit - 1, TextLimit, TextLimit + 1}}
    \cup {InBody(<<"<p>", " ">> \o LongText(TextLimit + 1) \o <<" ", "a">>)}
\* a page with two script elements and a letter between them
TwoScriptsPage ==
    InBody(<<"<script>", "a", "</script>", "a", "<script>", "a", "</script>">>)
ExtractInputs ==
    {InBody(inner) : inner \in SeqsUpTo(BodyTokens, MaxTokens)}
    \cup LongPages \cup Pages \cup {TwoScriptsPage}

NoExtraction == [pc |-> "idle", html |-> <<>>, text |-> <<>>]

\* line 65: extractTextFromHtml is called with the markup of a page
ExtractTextCall(html) ==
    /\ client = "extract"
    /\ extraction.pc \in {"idle", "returned"}
    /\ extraction' = [pc |-> "called", html |-> html, text |-> <<>>]
    /\ UNCHANGED <<modal, shots, client, auditState, batch, auditVars, crawlVars>>

\* lines 66-81: it returns the text
ExtractTextReturn ==
    /\ extraction.pc = "called"
    /\ extraction' = [extraction EXCEPT !.pc = "returned",
                          !.text = ExtractTextFromHtml(extraction.html)]
    /\ UNCHANGED <<modal, shots, client, auditState, batch, auditVars, crawlVars>>

NextExtract ==
    \/ \E html \in ExtractInputs : ExtractTextCall(html)
    \/ ExtractTextReturn

(***************************************************************************)
(* The specifications: the single audits, the link discovery, the batch.   *)
(***************************************************************************)
Init ==
    /\ env_key \in {NULL, "k0"}
    /\ calls = [c \in CallIds |-> IdleCall]
    /\ lastIndex = 0
    /\ crawl = IdleCrawl
    /\ auditState = InitialAuditState
    /\ batch = IdleBatch
    /\ shots = IdleShots
    /\ extraction = NoExtraction
    /\ modal = ClosedModal
    /\ client \in {"single", "crawl", "page", "direct", "shots", "extract"}

Next ==
    NextAudit \/ NextCrawl \/ NextBatch \/ NextView \/ NextShots \/ NextExtract

\* the server started with no GEMINI_API_KEY in its environment
InitUnconfigured == Init /\ env_key = NULL
SpecUnconfigured == InitUnconfigured /\ [][NextAudit]_vars

\* Spec: the runSingleAudit calls; SpecCrawl: the crawlLinksForAudit calls;
\* SpecBatch: the batch of the page or of a direct caller; SpecShots: the
\* takeScreenshots calls; SpecExtract: the extractTextFromHtml calls;
\* SpecRequests: the three entry points a user's
\* request reaches (runSingleAudit, the page's form, takeScreenshots);
\* SpecView: the page's form and its table of results; SpecAll: all of them
Spec == Init /\ [][NextAudit]_vars
SpecCrawl == Init /\ [][NextCrawl]_vars
SpecBatch == Init /\ [][NextBatch]_vars
SpecShots == Init /\ [][NextShots]_vars
SpecExtract == Init /\ [][NextExtract]_vars
SpecRequests == Init /\ [][NextAudit \/ NextPage \/ NextShots]_vars
\* the page with its pending steps always taken in the end
SpecPageFair == Init /\ [][NextPage]_vars /\ WF_vars(PageProgress)
SpecView == Init /\ [][NextPage \/ NextView]_vars
SpecAll == Init /\ [][Next]_vars

(***************************************************************************)
(* Properties.                                                             *)
(***************************************************************************)
\* the AuditResult a finished call returned, as a set (empty when it returned none)
ResultsOf(c) ==
    IF calls[c].pc = "returned"
    THEN {calls[c].response.result[i] : i \in 1..Len(calls[c].response.result)}
    ELSE {}

FetchFailedIn(c) ==
    /\ calls[c].fetched # None
    /\ ~calls[c].fetched[1].ok

\* C1: every AuditResult that runSingleAudit returns has status success exactly
\* when it carries a report and no error message, and status error exactly
\* when it carries an error message and no report
C1_StatusMatchesFields ==
    \A c \in CallIds : \A r \in ResultsOf(c) :
        /\ r.status \in {"success", "error"}
        /\ (r.status = "success") <=> (r.data # None /\ r.error = None)
        /\ (r.status = "error") <=> (r.error # None /\ r.data = None)

\* one call has returned a success result and another an error result
C1_Witness ==
    /\ \E c \in CallIds : \E r \in ResultsOf(c) : r.status = "success"
    /\ \E c \in CallIds : \E r \in ResultsOf(c) : r.status = "error"

\* C2: the report of every success result has a score from 0 to 100 (a score
\* outside that range makes the result an error)
C2_ScoreInRange ==
    \A c \in CallIds : \A r \in ResultsOf(c) :
        r.status = "success" =>
            /\ r.data[1].complianceScore >= 0
            /\ r.data[1].complianceScore <= 100

\* C3: when the text extracted from the fetched page is empty, the analysis
\* is not called and the call ends with an error result
C3_EmptyTextIsError ==
    \A c \in CallIds :
        ( /\ calls[c].fetched # None
          /\ calls[c].fetched[1].ok
          /\ ExtractTextFromHtml(calls[c].fetched[1].body) = <<>> )
        => /\ calls[c].analyses = 0
           /\ calls[c].pc = "returned"
           /\ \A r \in ResultsOf(c) : r.status = "error"

\* C7: when the fetch of the page fails (a status outside 2xx, or a rejected
\* fetch), the call has returned an error result whose message is that of the
\* failed fetch of this URL; the page was fetched once and never analysed
C7_FetchFailureIsError ==
    \A c \in CallIds :
        FetchFailedIn(c) =>
            /\ calls[c].pc = "returned"
            /\ calls[c].fetches = 1
            /\ calls[c].analyses = 0
            /\ ~calls[c].response.success
            /\ \E r \in ResultsOf(c) :
                  /\ r.status = "error"
                  /\ r.url = calls[c].values.url
                  /\ r.error[1].text = "Could not retrieve content from"
                  /\ r.error[1].url = calls[c].values.url
                  /\ r.error[1].cause \in {"Failed to fetch URL:", "fetch failed"}

\* one call met a 500 response and another a rejected fetch
C7_Witness ==
    /\ \E c \in CallIds : FetchFailedIn(c) /\ calls[c].fetched[1].kind = "response"
    /\ \E c \in CallIds : FetchFailedIn(c) /\ calls[c].fetched[1].kind = "rejects"


CrawlReturnedLinks ==
    IF crawl.pc = "returned" /\ crawl.response.success
    THEN {crawl.response.links[1][i] : i \in 1..Len(crawl.response.links[1])}
    ELSE {}

CrawlFetchFailed ==
    /\ crawl.fetched # None
    /\ ~crawl.fetched[1].ok

\* C8: every link that crawlLinksForAudit returns has the scheme and exactly
\* the host of the start URL
C8_LinksOnStartHost ==
    \A link \in CrawlReturnedLinks :
        /\ ParseUrl(link).ok
        /\ ParseUrl(link).scheme = ParseUrl(crawl.startUrl).scheme
        /\ ParseUrl(link).host = ParseUrl(crawl.startUrl).host

\* C9: the returned links hold no duplicate and no fragment or query; an
\* href on another host gives no link; an href on the start host (absolute,
\* or relative to the root) gives its absolute URL without fragment and query
C9_LinksNormalizedAndDistinct ==
    (crawl.pc = "returned" /\ crawl.response.success) =>
        LET links   == crawl.response.links[1]
            anchors == crawl.fetched[1].anchors
            start   == ParseUrl(crawl.startUrl)
            origin  == start.scheme \o <<":", "/", "/">> \o start.host
        IN  /\ \A i, j \in 1..Len(links) : links[i] = links[j] => i = j
            /\ \A i \in 1..Len(links) : \A k \in 1..Len(links[i]) :
                  links[i][k] \notin {"#", "?"}
            /\ \A k \in 1..Len(anchors) :
                  LET h == anchors[k]
                  IN  /\ (ParseUrl(h).ok /\ ParseUrl(h).host # start.host) =>
                            \A link \in CrawlReturnedLinks :
                                ParseUrl(link).host # ParseUrl(h).host
                      /\ (ParseUrl(h).ok /\ ParseUrl(h).host = start.host) =>
                            SplitHead(SplitHead(h, "#"), "?") \in CrawlReturnedLinks
                      /\ (h # <<>> /\ h[1] = "/") =>
                            origin \o SplitHead(SplitHead(h, "#"), "?")
                                \in CrawlReturnedLinks

\* C10 as stated: when the page cannot be fetched, the result carries an
\* empty list of links
C10_FetchFailureGivesEmptyLinks ==
    (crawl.pc = "returned" /\ CrawlFetchFailed) =>
        /\ crawl.response.success
        /\ crawl.response.links = Some(<<>>)

\* C10 as amended: when the page cannot be fetched, crawlLinksForAudit still
\* returns (it does not throw), after one fetch; its response has success =
\* false, an error message and no list of links
C10_FetchFailureIsReported ==
    CrawlFetchFailed =>
        /\ crawl.pc = "returned"
        /\ crawl.fetches = 1
        /\ ~crawl.response.success
        /\ crawl.response.links = None
        /\ crawl.response.error # None
        /\ crawl.response.error[1].text \in {"Failed to fetch start URL:", "fetch failed"}

\* a crawl has returned after a 500 response of the start page
C10_Witness ==
    /\ crawl.pc = "returned"
    /\ CrawlFetchFailed
    /\ crawl.fetched[1].kind = "response"
    /\ crawl.fetched[1].status = 500

BatchFetchFailed(e) == ~e.fetched.ok
BatchTextEmpty(e) == e.fetched.ok /\ ExtractTextFromHtml(e.fetched.body) = <<>>
BatchAnalysisFailed(e) ==
    /\ e.fetched.ok
    /\ ExtractTextFromHtml(e.fetched.body) # <<>>
    /\ e.analyzed # None
    /\ e.analyzed[1].kind # "output"

\* C4: in a batch every URL audited so far has its own entry, in order; the
\* entry of a URL whose fetch, extraction or analysis failed is an error
\* whose message names that step, and the entry of every other URL is the
\* success built from its own page and its own analysis, whatever happened
\* to the other URLs; the batch is returned with one entry per URL
C4_FailureIsIsolated ==
    /\ Len(batch.results) = Len(batch.log)
    /\ \A i \in 1..Len(batch.log) :
          LET e == batch.log[i]
              r == batch.results[i]
          IN  /\ i <= Len(batch.results)
              /\ r.url = batch.working[i]
              /\ BatchFetchFailed(e) =>
                    /\ r.status = "error"
                    /\ r.error[1].text = "Could not retrieve content from"
                    /\ r.error[1].url = batch.working[i]
              /\ BatchTextEmpty(e) =>
                    /\ r.status = "error"
                    /\ r.error[1].text = "Could not extract meaningful content from URL."
              /\ BatchAnalysisFailed(e) =>
                    /\ r.status = "error"
                    /\ r.error[1].text = "analysis service error"
              /\ (~BatchFetchFailed(e) /\ ~BatchTextEmpty(e) /\ ~BatchAnalysisFailed(e)) =>
                    /\ e.analyzed # None
                    /\ r = [url |-> batch.working[i], status |-> "success",
                            data |-> Some(e.analyzed[1].output), error |-> None]
    /\ (batch.pc = "returned" /\ batch.working # <<>>) =>
          /\ batch.response.success
          /\ Len(batch.response.results) = Len(batch.working)

BatchHasParseableUrl(request) ==
    /\ request.guidelineText # ""
    /\ \E i \in 1..Len(request.urls) : NormalizedUrl(request.urls[i]) # None

\* the URLs a request resolves to: the submitted ones that parse, normalized,
\* and the links discovered for it
ResolvedUrls ==
    {NormalizedUrl(batch.request.urls[i])[1] :
        i \in {k \in 1..Len(batch.request.urls) :
                  NormalizedUrl(batch.request.urls[k]) # None}}
    \cup {batch.discovered[i] : i \in 1..Len(batch.discovered)}

C6_InvalidRequestDoesNothing ==
    /\ \A c \in CallIds :
          ( /\ calls[c].pc # "idle"
            /\ (calls[c].values.brandGuidelines = "" \/ ~ParseUrl(calls[c].values.url).ok) )
          => /\ calls[c].pc = "returned"
             /\ ~calls[c].response.success
             /\ calls[c].fetches = 0
             /\ calls[c].analyses = 0
    /\ ( /\ client = "page"
         /\ (batch.request.guidelineText = "" \/ UrlsBlank(batch.request.urls)) )
       => /\ batch.pc = "idle"
          /\ ~auditState.isLoading
          /\ batch.fetches = 0
          /\ batch.analyses = 0
    /\ (shots.pc # "idle" /\ ~ParseUrl(shots.values.url).ok)
       => /\ shots.pc = "returned"
          /\ ~shots.response.success
          /\ shots.launches = 0

\* one call was rejected for its empty guidelines and another for its
\* malformed URL
C6_Witness ==
    /\ \E c \in CallIds :
          /\ calls[c].pc = "returned"
          /\ calls[c].values.brandGuidelines = ""
          /\ calls[c].response = Rejected(InvalidInputMsg(calls[c].values))
    /\ \E c \in CallIds :
          /\ calls[c].pc = "returned"
          /\ calls[c].values.brandGuidelines # ""
          /\ calls[c].values.url = NotAUrl
          /\ calls[c].response.error[1].text = "A valid URL is required."

\* C11: a takeScreenshots call launches the browser at most once; a browser
\* runs only while the call loads the page or captures; when the call has
\* returned, a browser that was launched has been closed once and none runs
C11_BrowserClosedOnReturn ==
    /\ shots.launches <= 1
    /\ shots.closes <= shots.launches
    /\ shots.open => shots.pc \in {"loading", "capturing"}
    /\ shots.pc = "returned" =>
          /\ ~shots.open
          /\ shots.browser => shots.closes = 1

\* a call has returned after a capture that threw, its browser closed
C11_Witness ==
    /\ shots.pc = "returned"
    /\ shots.browser
    /\ \E i \in 1..Len(shots.outcomes) : shots.outcomes[i] = "throws"
    /\ shots.closes = 1
    /\ ~shots.open

\* the screenshots of the selectors whose element was found and captured,
\* in the order of the input
RECURSIVE CapturedOf(_, _)
CapturedOf(selectors, outcomes) ==
    IF selectors = <<>> \/ outcomes = <<>> THEN <<>>
    ELSE (IF Head(outcomes) = "element"
          THEN <<[selector |-> Head(selectors), screenshot |-> "base64"]>>
          ELSE <<>>) \o CapturedOf(Tail(selectors), Tail(outcomes))

\* C12: once the page has loaded, every selector of the input is handled,
\* whatever happened to the others; the call returns success = true with
\* the screenshots of exactly the selectors that were found and captured,
\* in input order
C12_SelectorsIndependent ==
    /\ shots.pc = "capturing" =>
          /\ Len(shots.outcomes) = shots.at - 1
          /\ shots.screenshots = CapturedOf(shots.values.selectors, shots.outcomes)
    /\ (shots.pc = "returned" /\ shots.at > 0) =>
          /\ Len(shots.outcomes) = Len(shots.values.selectors)
          /\ shots.response.success
          /\ shots.response.screenshots =
                Some(CapturedOf(shots.values.selectors, shots.outcomes))

\* a call has returned one screenshot, of its second selector: the first
\* selector matched no element or its capture threw
C12_Witness ==
    /\ shots.pc = "returned"
    /\ Len(shots.values.selectors) = 2
    /\ Len(shots.outcomes) = 2
    /\ shots.outcomes[1] # "element"
    /\ shots.outcomes[2] = "element"
    /\ shots.response.success
    /\ Len(shots.response.screenshots[1]) = 1
    /\ shots.response.screenshots[1][1].selector = shots.values.selectors[2]

\* C13: the screenshots a call returns hold at most one Screenshot for each
\* selector
C13_OneScreenshotPerSelector ==
    (shots.pc = "returned" /\ shots.response.success) =>
        LET screenshots == shots.response.screenshots[1]
        IN  \A i, j \in 1..Len(screenshots) :
                screenshots[i].selector = screenshots[j].selector => i = j

\* C14: the text extractTextFromHtml returns has at most 15,000 characters;
\* it is the first 15,000 characters of the cleaned text of the body when
\* that is longer, and the whole cleaned text otherwise
C14_TextTruncatedAtLimit ==
    extraction.pc = "returned" =>
    LET m       == BodyMatch(extraction.html)
        cleaned == IF m.matched THEN CleanText(m.inner) ELSE <<>>
        text    == extraction.text
    IN  /\ Len(text) <= 15000
        /\ Len(cleaned) > 15000 =>
              /\ Len(text) = 15000
              /\ \A i \in 1..15000 : text[i] = cleaned[i]
        /\ Len(cleaned) <= 15000 => text = cleaned

\* the text of a page whose cleaned text has 15,001 characters was cut
C14_Witness ==
    /\ extraction.pc = "returned"
    /\ BodyMatch(extraction.html).matched
    /\ Len(CleanText(BodyMatch(extraction.html).inner)) = 15001
    /\ Len(extraction.text) = 15000

\* C15: the url of every AuditResult that runSingleAudit returns is the
\* submitted URL string, character for character, query and fragment kept
C15_ResultKeepsSubmittedUrl ==
    \A c \in CallIds : \A r \in ResultsOf(c) :
        /\ r.url = calls[c].values.url
        /\ Len(r.url) = Len(calls[c].values.url)

\* a success result and an error result for a URL with query and fragment
C15_Witness ==
    /\ \E c \in CallIds : \E r \in ResultsOf(c) :
          /\ r.status = "success"
          /\ \E i, j \in 1..Len(r.url) : r.url[i] = "?" /\ r.url[j] = "#"
    /\ \E c \in CallIds : \E r \in ResultsOf(c) :
          /\ r.status = "error"
          /\ \E i, j \in 1..Len(r.url) : r.url[i] = "?" /\ r.url[j] = "#"

\* the submitted string with https:// put before it when it has no scheme
WithScheme(raw) == IF SchemeOf(raw) = <<>> THEN HTTPS \o raw ELSE raw

\* C16: a submitted URL that parses as an absolute URL once https:// is put
\* before a string without scheme is not rejected as invalid, and is audited
\* under its normalized form, which normalizes to itself; only a string that
\* does not parse even then is rejected as invalid
C16_SchemelessUrlAccepted ==
    \A c \in CallIds :
        (calls[c].pc # "idle" /\ calls[c].values.brandGuidelines # "") =>
            LET u == ParseUrl(WithScheme(calls[c].values.url))
                invalid == /\ calls[c].pc = "returned"
                           /\ calls[c].response.error # None
                           /\ calls[c].response.error[1].text = "A valid URL is required."
            IN  /\ invalid <=> ~u.ok
                /\ u.ok =>
                      /\ \A r \in ResultsOf(c) : r.url = Href(u)
                      /\ ParseUrl(WithScheme(Href(u))).ok
                      /\ Href(ParseUrl(WithScheme(Href(u)))) = Href(u)

\* C17 as stated: every response of runSingleAudit carries an AuditResult
C17_EveryResponseHasResult ==
    \A c \in CallIds :
        calls[c].pc = "returned" => calls[c].response.result # None

\* C17 as amended: a response of runSingleAudit carries an AuditResult, for
\* the requested URL, exactly when the call went on to fetch the page; a
\* call rejected for its input or for the missing API key returns
\* success = false with an error message and no result
C17_ResultOnlyAfterFetch ==
    \A c \in CallIds :
        calls[c].pc = "returned" =>
            /\ (calls[c].response.result # None) <=> (calls[c].fetches = 1)
            /\ calls[c].fetches = 0 =>
                  /\ ~calls[c].response.success
                  /\ calls[c].response.error # None
                  /\ calls[c].response.error[1].text \in
                        {"Brand guidelines are required.",
                         "A valid URL is required.",
                         "Brand guidelines are required., A valid URL is required.",
                         "Gemini API key is not set. Please provide it."}
            /\ \A r \in ResultsOf(c) : r.url = calls[c].values.url
            /\ (calls[c].fetches = 1 /\ ~calls[c].response.success) =>
                  \E r \in ResultsOf(c) : r.status = "error"

\* one call was rejected for the missing API key and has no result, another
\* failed after its fetch and has an error result
C17_Witness ==
    /\ \E c \in CallIds :
          /\ calls[c].pc = "returned"
          /\ calls[c].response = Rejected(NoKeyMsg)
          /\ ResultsOf(c) = {}
    /\ \E c \in CallIds :
          /\ calls[c].pc = "returned"
          /\ ~calls[c].response.success
          /\ \E r \in ResultsOf(c) : r.status = "error"

\* the two shapes of a page state that is not loading: results without an
\* error, or one error message without results
ResultsShape(state) == state.error = None
ErrorShape(state) ==
    /\ Len(state.error) = 1
    /\ state.results = <<>>

\* C18: once a submission has finished the page state has results and no
\* error (the batch succeeded, and these are its results), or one error
\* message and no results (the batch failed); the page then renders the
\* table of results or the error alone
C18_ResultsOrErrorNeverBoth ==
    /\ ~auditState.isLoading =>
          /\ ResultsShape(auditState) \/ ErrorShape(auditState)
          /\ ~(ResultsShape(auditState) /\ ErrorShape(auditState))
          /\ auditState.results # <<>> => AuditResultsView(auditState) = "table"
          /\ auditState.error # None => AuditResultsView(auditState) = "error"
    /\ (client = "page" /\ auditState.isLoading /\ batch.pc = "returned") =>
          LET after == AuditStateAfter(batch.response)
          IN  /\ ~after.isLoading
              /\ batch.response.success =>
                    /\ after.results = batch.response.results
                    /\ after.error = None
              /\ ~batch.response.success =>
                    /\ after.results = <<>>
                    /\ after.error = batch.response.error

\* a submission whose batch failed has finished: the page shows the error
C18_Witness ==
    /\ client = "page"
    /\ ~auditState.isLoading
    /\ auditState.error # None
    /\ auditState.results = <<>>
    /\ AuditResultsView(auditState) = "error"

\* C19: a call that is fetching or analysing has no AuditResult yet; the
\* result it returns has status success or error, never pending; and from
\* then on the call's response and result stay as they are
C19_ResultsAreFinal ==
    [][ \A c \in CallIds :
          /\ calls'[c].pc \in {"fetching", "analyzing"} =>
                calls'[c].response.result = None
          /\ calls'[c].pc = "returned" =>
                \A i \in 1..Len(calls'[c].response.result) :
                    calls'[c].response.result[i].status \in {"success", "error"}
          /\ calls[c].pc = "returned" => calls'[c] = calls[c] ]_vars

\* the first call has returned a success result and the second, started
\* after it, has returned an error result
C19_Witness ==
    /\ calls[1].pc = "returned"
    /\ calls[1].response.result # None
    /\ calls[1].response.result[1].status = "success"
    /\ calls[2].pc = "returned"
    /\ calls[2].response.result # None
    /\ calls[2].response.result[1].status = "error"

\* an href that is a path relative to the directory of the page
IsRelativePath(h) ==
    /\ h # <<>>
    /\ h[1] \notin {"/", "?", "#"}
    /\ SchemeOf(h) = <<>>

\* the URL of the page up to and including the last "/" of its path
PageDirectory(pageUrl) ==
    LET plain == SplitHead(SplitHead(pageUrl, "#"), "?")
    IN  SubSeq(plain, 1, LastOf(plain, "/"))

\* C20: a relative href of the scanned page is returned resolved against the
\* URL of that page: href 's' on https://a.com/d/p gives https://a.com/d/s
C20_RelativeAgainstPage ==
    (crawl.pc = "returned" /\ crawl.response.success) =>
        \A k \in 1..Len(crawl.fetched[1].anchors) :
            LET h == crawl.fetched[1].anchors[k]
            IN  IsRelativePath(h) =>
                    PageDirectory(crawl.startUrl) \o SplitHead(SplitHead(h, "#"), "?")
                        \in CrawlReturnedLinks

\* the elements whose content is not part of the text
HiddenKinds == {<<"<style>", "</style>">>, <<"<script>", "</script>">>,
                <<"<nav>", "</nav>">>, <<"<footer>", "</footer>">>}

\* position i of markup s lies inside an element of kind k: an opening tag
\* of the kind precedes it with no closing tag in between, and a closing tag
\* follows it
InsideKind(s, i, k) ==
    /\ \E o \in 1..(i-1) :
          /\ s[o] = k[1]
          /\ \A j \in (o+1)..(i-1) : s[j] # k[2]
    /\ \E e \in (i+1)..Len(s) : s[e] = k[2]

\* the characters of markup s, other than white space, that lie outside every
\* hidden element, in order
VisibleText(s) ==
    LET hasHidden == \E o \in 1..Len(s) : \E k \in HiddenKinds : s[o] = k[1]
        marks == [i \in 1..Len(s) |->
                    IF \/ s[i] \in Tags
                       \/ s[i] \in WhiteSpace
                       \/ hasHidden /\ \E k \in HiddenKinds : InsideKind(s, i, k)
                    THEN Dropped ELSE s[i]]
    IN  SelectSeq(marks, NotDropped)

RECURSIVE IsSubseq(_, _)
IsSubseq(u, v) ==
    IF u = <<>> THEN TRUE
    ELSE IF v = <<>> THEN FALSE
    ELSE IF Head(u) = Head(v) THEN IsSubseq(Tail(u), Tail(v))
    ELSE IsSubseq(u, Tail(v))

NotWhiteSpace(x) == x \notin WhiteSpace
Letters(s) == SelectSeq(s, NotWhiteSpace)

\* no tag is left in the returned text
TextHasNoTags ==
    extraction.pc = "returned" =>
        \A i \in 1..Len(extraction.text) : extraction.text[i] \notin Tags
\* the letters of the returned text are letters of the body outside the
\* hidden elements (short pages)
TextHasNoHiddenText ==
    LET m == BodyMatch(extraction.html)
    IN  (extraction.pc = "returned" /\ m.matched
            /\ Len(extraction.html) <= TextLimit) =>
            IsSubseq(Letters(extraction.text), VisibleText(m.inner))
\* white space in the returned text is single spaces between letters
TextHasSingleSpaces ==
    extraction.pc = "returned" =>
        LET text == extraction.text
        IN  \A i \in 1..Len(text) :
                text[i] \in WhiteSpace =>
                    /\ text[i] = " "
                    /\ i > 1 /\ i < Len(text)
                    /\ text[i+1] \notin WhiteSpace

\* C21: the text extractTextFromHtml returns holds no tag and no letter that
\* lay inside a style, script, nav or footer element of the body; its white
\* space is single spaces between letters, none at the start or the end
C21_TextIsClean ==
    TextHasNoTags /\ TextHasNoHiddenText /\ TextHasSingleSpaces

\* C22: when no key is configured, every runSingleAudit call with well-formed
\* input and no apiKey returns the missing-key failure, whatever calls were
\* made before it
C22_NoKeyCallFails ==
    \A c \in CallIds :
        (/\ calls[c].pc # "idle"
         /\ SingleAuditInputValid(calls[c].values)
         /\ calls[c].values.apiKey = NULL)
        => calls[c].response = Rejected(NoKeyMsg)

\* the launch of the browser or the load of the page failed in this call
ShotsSetupFailed ==
    /\ shots.pc = "returned"
    /\ shots.launches = 1
    /\ shots.at = 0

\* C23: a takeScreenshots call with well-formed input whose browser launch or
\* page load failed returns success = false with an error message and no
\* screenshots; every other call with well-formed input returns success = true
\* with the screenshots of the selectors that were captured, whatever happened
\* to the other selectors
C23_OnlySelectorFailuresSwallowed ==
    (shots.pc = "returned" /\ ScreenshotInputValid(shots.values)) =>
        IF ShotsSetupFailed
        THEN /\ ~shots.response.success
             /\ shots.response.screenshots = None
             /\ shots.response.error # None
        ELSE /\ shots.response.success
             /\ shots.response.error = None
             /\ shots.response.screenshots =
                   Some(CapturedOf(shots.values.selectors, shots.outcomes))

\* C23 as stated: every takeScreenshots call with well-formed input returns
\* success = true
C23_EveryFailureSwallowed ==
    (shots.pc = "returned" /\ ScreenshotInputValid(shots.values)) =>
        shots.response.success

\* a call with well-formed input has returned a failure after the launch of
\* the browser was rejected
C23_Witness ==
    /\ ShotsSetupFailed
    /\ ScreenshotInputValid(shots.values)
    /\ ~shots.browser
    /\ shots.response = ShotsFailed("launch failed")

\* C24: a crawlLinksForAudit call with a well-formed startUrl passes exactly
\* one URL to fetch, its startUrl, and none of the links it finds; it has
\* returned as soon as the markup of that page is scanned
C24_OnlyStartUrlFetched ==
    /\ crawl.pc \in {"idle", "fetching", "returned"}
    /\ crawl.pc = "fetching" =>
          /\ crawl.requested = <<crawl.startUrl>>
          /\ crawl.fetched = None
    /\ crawl.pc = "returned" =>
          crawl.requested =
              IF ZodUrl(crawl.startUrl) THEN <<crawl.startUrl>> ELSE <<>>
    /\ Len(crawl.requested) = crawl.fetches

\* a call has returned two links of the page it scanned and has fetched
\* nothing but its startUrl
C24_Witness ==
    /\ crawl.pc = "returned"
    /\ crawl.response.success
    /\ Len(crawl.response.links[1]) = 2
    /\ crawl.requested = <<crawl.startUrl>>

\* the rows of the table the page shows
TableRows ==
    IF client = "page" /\ AuditResultsView(auditState) = "table"
    THEN {auditState.results[i] : i \in 1..Len(auditState.results)}
    ELSE {}

\* the user can bring the message of this result on screen: a cell of its row
\* holds it, or its View Details button opens the dialog that shows it
MessageCanBeSeen(result) ==
    \/ /\ "error" \in DOMAIN RowView(result)
       /\ RowView(result)["error"] = result.error
    \/ /\ ~RowView(result).detailsDisabled
       /\ ~DetailsRefused(result)
       /\ DialogView([selectedResult |-> Some(result),
                      isModalOpen |-> TRUE]).shown = "failed"

\* C25: for every row of the table whose status is error the user can see the
\* row's error badge and its error message, and every row whose status is
\* success is shown with a View Details button that opens its report
C25_ErrorRowsShowMessage ==
    /\ \A result \in TableRows :
          /\ result.status = "error" =>
                /\ RowView(result).badge = "error"
                /\ MessageCanBeSeen(result)
          /\ result.status = "success" =>
                /\ ~RowView(result).detailsDisabled
                /\ ~DetailsRefused(result)
    /\ DialogView(modal).shown = "failed" =>
          DialogView(modal).error = modal.selectedResult[1].error

\* C26: the response of a crawlLinksForAudit call whose page was fetched is
\* the one a scan of that page's markup from its start gives for the call's
\* startUrl, whatever calls ran before it
C26_NoStateBetweenCalls ==
    (crawl.pc = "returned" /\ crawl.fetched # None /\ crawl.fetched[1].kind = "response"
        /\ crawl.fetched[1].ok) =>
        LET scan == ScanLinks(crawl.fetched[1].anchors, BaseUrl(crawl.startUrl),
                              1, <<>>)
        IN  crawl.response = IF scan.threw
                             THEN CrawlFailed(Msg("Invalid URL", <<>>, "", 0))
                             ELSE CrawlOk(scan.links)

\* C27: the analysis of a runSingleAudit call that supplied an apiKey runs
\* with that key, however the steps of the calls interleave
C27_AnalysisUsesOwnKey ==
    \A c \in CallIds :
        (calls[c].pc \in {"analyzing", "returned"}
            /\ calls[c].analyses > 0
            /\ calls[c].values.apiKey # NULL)
        => calls[c].analysisKey = calls[c].values.apiKey

\* C28: the text extractTextFromHtml returns holds every letter of the body
\* that lies outside the style, script, nav and footer elements, in order
C28_VisibleTextKept ==
    LET m == BodyMatch(extraction.html)
    IN  (extraction.pc = "returned" /\ m.matched
            /\ Len(extraction.html) <= TextLimit) =>
            IsSubseq(VisibleText(m.inner), Letters(extraction.text))

\* the links of a page when the hrefs that cannot be resolved are passed over
RECURSIVE LinksSkippingUnresolved(_, _, _, _)
LinksSkippingUnresolved(anchors, baseUrl, i, links) ==
    IF i > Len(anchors) THEN links
    ELSE LET u == ResolveUrl(anchors[i], ParseUrl(baseUrl))
         IN  LinksSkippingUnresolved(anchors, baseUrl, i + 1,
                IF u.ok /\ SameDomain(Href(u), baseUrl)
                THEN SetAdd(links, NormalizeLink(Href(u)))
                ELSE links)

\* C29: a crawlLinksForAudit call whose page was fetched and is scanned from
\* its start returns success = true with the normalized links of the
\* same-domain anchors whose href can be resolved, whether or not the page
\* holds an href that cannot be resolved
C29_UnresolvableHrefSkipped ==
    (/\ crawl.pc = "returned"
     /\ crawl.fetched # None
     /\ crawl.fetched[1].kind = "response"
     /\ crawl.fetched[1].ok
     /\ crawl.scanFrom = 0) =>
        crawl.response =
            CrawlOk(LinksSkippingUnresolved(crawl.fetched[1].anchors,
                                            BaseUrl(crawl.startUrl), 1, <<>>))

\* C30: whenever a batch has been started and the form is disabled, isLoading
\* becomes false again later and the form is enabled
C30_LoadingEnds ==
    (auditState.isLoading /\ FormDisabled) ~>
        (~auditState.isLoading /\ ~FormDisabled)

====
